---- MODULE Spec2Model ----
(***************************************************************************)
(* smtpdump: an SMTP capture endpoint.  main() validates its configuration *)
(* and starts the protocol engine; for every completed transaction the     *)
(* engine calls the handler built by outputHandler, which allocates a      *)
(* uniquely named file with randFile and copies the message into it.       *)
(*                                                                         *)
(* A message body is a sequence of lines, each one of                      *)
(*   "s"  a "Subject: Hi" header line                                      *)
(*   "n"  the empty line that ends the header section                      *)
(*   "x"  a line without a colon (not a header line)                       *)
(* The file system is a function from the names of the existing files to   *)
(* their contents.                                                         *)
(***************************************************************************)
EXTENDS Integers, Sequences, FiniteSets, Bags, TLC

\* ------------------------------------------------------------------ bounds
NumConns == 2      \* connections served concurrently by the engine
MaxMsgs == 2       \* messages delivered in one run
MaxTime == 2       \* distinct readings of the clock
MaxBodyLen == 2    \* lines in a message body
MaxAttempts == 3   \* iterations of randFile's loop (10000 in the source)
MaxPid == 1        \* process identifiers

\* --------------------------------------------------------------- constants
Multiplier == 1664525
Increment == 1013904223
Extension == "eml"

Nil == <<>>
Conns == 1..NumConns
Times == 1..MaxTime
Lines == {"s", "n", "x"}
Bodies == UNION {[1..k -> Lines] : k \in 0..MaxBodyLen}
Origins == {"10.0.0.1:25"}
Mechanisms == {"PLAIN", "CRAM-MD5"}
Secrets == {"", "pw"}
Addrs == {"", "a@x"}

VARIABLES
    \* flags and globals of main
    hostname, debug, verbose, output, cert, pkey, discard, pid,
    tlsmin,     \* the three minimum-version flags
    mainpc,     \* position of main
    fatalAt,    \* the position at which main called log.Fatalln, "" if none
    srv,        \* the smtpd.Server built by main
    \* the output directory and the open file handles
    fs, open,
    \* one handler invocation per connection
    pc, data, prefix, i, f, err, werr, deferred, logs,
    ret,        \* what the last policy callback on the connection returned
    \* history
    delivered,  \* messages handed to the handler so far
    trace,      \* outcomes of the creation attempts of the current randFile call
    drawn,      \* the clock reading each of those attempts drew from, 0
                \* for an attempt that failed before the name mattered
    made,       \* files created by the current randFile call
    pre,        \* what the creating attempt found and left at the returned path
    handed,     \* bag of the paths returned by successful randFile calls
    persisted,  \* <<path, body>> of the invocations that wrote their message
    failed,     \* some invocation has logged an error
    sawFail     \* the current invocation began after such a failure

cfgvars == <<hostname, debug, output, cert, pkey, discard, pid, tlsmin>>
mainvars == <<verbose, mainpc, fatalAt, srv>>
connvars == <<pc, data, prefix, i, f, err, werr, deferred, logs, ret>>
histvars == <<delivered, trace, drawn, made, pre, handed, persisted, failed, sawFail>>
vars == <<cfgvars, mainvars, fs, open, connvars, histvars>>

\* ------------------------------------------------------------ net/mail
\* The index of the empty line that ends the header section, 0 if none.
RECURSIVE FirstBlank(_, _)
FirstBlank(b, k) ==
    IF k > Len(b) THEN 0
    ELSE IF b[k] = "n" THEN k
    ELSE FirstBlank(b, k + 1)

HeaderLines(b) ==
    IF FirstBlank(b, 1) = 0 THEN b ELSE SubSeq(b, 1, FirstBlank(b, 1) - 1)

\* mail.ReadMessage followed by Header.Get("Subject"): a header line
\* without a colon is an error, an empty input is an error, and a header
\* section that ends with the input instead of an empty line is an error or
\* not, depending on the library's version.
ReadMessage(b) ==
    LET h == HeaderLines(b)
        subject == IF \E k \in 1..Len(h) : h[k] = "s" THEN "Hi" ELSE ""
        good == [ok |-> TRUE, subject |-> subject]
        bad == [ok |-> FALSE, subject |-> ""]
    IN  IF \E k \in 1..Len(h) : h[k] = "x" THEN {bad}
        ELSE IF Len(b) = 0 THEN {bad}
        ELSE IF FirstBlank(b, 1) = 0 THEN {good, bad}
        ELSE {good}

\* ------------------------------------------------------------ randFile
\* Line 161: the congruential step on the clock reading plus the pid.
RandOf(t, p) == (t + p) * Multiplier + Increment

\* Lines 154-156 and 162-163.
FileName(dir, pfx, r, suffix) ==
    <<IF dir = "" THEN "tmp" ELSE dir, pfx, r, suffix>>

\* OpenFile without O_EXCL: an existing file is opened as it is.
OpenFileNoExcl(name, fsys) ==
    {[err |-> "io", f |-> Nil, fs |-> fsys, existed |-> name \in DOMAIN fsys]}
    \cup
    IF name \in DOMAIN fsys
    THEN {[err |-> "nil", f |-> name, fs |-> fsys, existed |-> TRUE]}
    ELSE {[err |-> "nil", f |-> name, fs |-> (name :> <<>>) @@ fsys,
           existed |-> FALSE]}

\* OpenFile with O_TRUNC in place of O_EXCL: an existing file is emptied.
OpenFileTrunc(name, fsys) ==
    {[err |-> "io", f |-> Nil, fs |-> fsys, existed |-> name \in DOMAIN fsys]}
    \cup
    IF name \in DOMAIN fsys
    THEN {[err |-> "nil", f |-> name, fs |-> [fsys EXCEPT ![name] = <<>>],
           existed |-> TRUE]}
    ELSE {[err |-> "nil", f |-> name, fs |-> (name :> <<>>) @@ fsys,
           existed |-> FALSE]}

\* OpenFile whose failure may leave the file it was creating behind.
OpenFileLeavesPartial(name, fsys) ==
    {[err |-> "io", f |-> Nil, fs |-> fsys, existed |-> name \in DOMAIN fsys]}
    \cup
    IF name \in DOMAIN fsys
    THEN {[err |-> "exist", f |-> Nil, fs |-> fsys, existed |-> TRUE]}
    ELSE {[err |-> "nil", f |-> name, fs |-> (name :> <<>>) @@ fsys,
           existed |-> FALSE],
          [err |-> "io", f |-> Nil, fs |-> (name :> <<>>) @@ fsys,
           existed |-> FALSE]}

\* os.OpenFile(name, O_RDWR|O_CREATE|O_EXCL): the possible outcomes.
OpenFile(name, fsys) ==
    {[err |-> "io", f |-> Nil, fs |-> fsys, existed |-> name \in DOMAIN fsys]}
    \cup
    IF name \in DOMAIN fsys
    THEN {[err |-> "exist", f |-> Nil, fs |-> fsys, existed |-> TRUE]}
    ELSE {[err |-> "nil", f |-> name, fs |-> (name :> <<>>) @@ fsys,
           existed |-> FALSE]}

\* The loop condition off by one.
LoopCondOffByOne(k) == k <= MaxAttempts

\* Line 159: the loop condition.
LoopCond(k) == k < MaxAttempts

\* Leaving the loop at an already-exists error too.
BreaksOnExist(e) == e \in {"nil", "exist"}

\* A loop that runs all its iterations whatever the outcomes.
BreaksNever(e) == FALSE

\* Lines 165-170: only a nil error leaves the loop; already-exists
\* continues, and any other error falls off the end of the body into the
\* next iteration.
Breaks(e) == e = "nil"

\* ------------------------------------------------------------ io.Copy
\* Writing w at offset 0 of a file holding c.
WriteAt0(c, w) == w \o SubSeq(c, Len(w) + 1, Len(c))

\* io.Copy(f, bytes.NewReader(data)): everything is written, or the write
\* fails after a proper prefix.
Copy(d) ==
    {[n |-> Len(d), err |-> "nil"]}
    \cup {[n |-> k, err |-> "io"] : k \in 0..(Len(d) - 1)}

\* Copying only what follows the header section, as io.Copy(f, msg.Body)
\* would.
PayloadBodyOnly(d) ==
    IF FirstBlank(d, 1) = 0 THEN <<>>
    ELSE SubSeq(d, FirstBlank(d, 1) + 1, Len(d))

\* Line 130: the reader handed to io.Copy yields the message as received.
Payload(d) == d

\* A diagnostic that returns to its caller, which goes on to st.
FatallnReturns(st) == st

\* log.Fatalln ends the process: main never reaches st, the position it
\* would have gone on to.
Fatalln(st) == "fatal"

\* A diagnostic that ends the process.
PrintlnExits(st) == "fatal"

\* log.Println returns to its caller: the process goes on as it was.
Println(st) == st

\* ------------------------------------------------------------ Init
Init ==
    /\ hostname \in {"", "mx"}
    /\ debug \in BOOLEAN
    /\ verbose \in BOOLEAN
    /\ output \in {"", "out"}
    /\ cert \in {"", "cert.pem"}
    /\ pkey \in {"", "key.pem"}
    /\ discard \in BOOLEAN
    /\ pid \in 1..MaxPid
    /\ tlsmin \in [v11 : BOOLEAN, v12 : BOOLEAN, v13 : BOOLEAN]
    /\ mainpc = "hostname"
    /\ fatalAt = ""
    /\ srv = [handler |-> "none", output |-> "", verbose |-> FALSE,
              tls |-> FALSE, minVersion |-> "unset"]
    /\ fs = <<>>
    /\ open = {}
    /\ pc = [p \in Conns |-> "idle"]
    /\ data = [p \in Conns |-> <<>>]
    /\ prefix = [p \in Conns |-> 0]
    /\ i = [p \in Conns |-> 0]
    /\ f = [p \in Conns |-> Nil]
    /\ err = [p \in Conns |-> "nil"]
    /\ werr = [p \in Conns |-> "nil"]
    /\ deferred = [p \in Conns |-> FALSE]
    /\ logs = [p \in Conns |-> {}]
    /\ ret = [p \in Conns |-> Nil]
    /\ delivered = 0
    /\ trace = [p \in Conns |-> <<>>]
    /\ drawn = [p \in Conns |-> <<>>]
    /\ made = [p \in Conns |-> {}]
    /\ pre = [p \in Conns |-> Nil]
    /\ handed = EmptyBag
    /\ persisted = {}
    /\ failed = FALSE
    /\ sawFail = [p \in Conns |-> FALSE]


\* ------------------------------------------------------------ main
\* Lines 45-47.
CheckHostname ==
    /\ mainpc = "hostname"
    /\ mainpc' = IF hostname = "" THEN Fatalln("debug") ELSE "debug"
    /\ fatalAt' = IF hostname = "" THEN "hostname" ELSE fatalAt
    /\ UNCHANGED <<cfgvars, verbose, srv, fs, open, connvars, histvars>>

\* Lines 49-56.
ApplyDebug ==
    /\ mainpc = "debug"
    /\ verbose' = IF debug THEN TRUE ELSE verbose
    /\ mainpc' = "output"
    /\ UNCHANGED <<cfgvars, fatalAt, srv, fs, open, connvars, histvars>>

\* Lines 58-68: os.Getwd for an empty output, then os.Stat; either may fail.
ResolveOutput ==
    /\ mainpc = "output"
    /\ \E getwdOk \in BOOLEAN, statOk \in BOOLEAN :
          IF output = "" /\ ~getwdOk
          THEN /\ mainpc' = Fatalln("server")
               /\ fatalAt' = "output"
               /\ output' = output
          ELSE /\ output' = IF output = "" THEN "cwd" ELSE output
               /\ mainpc' = IF statOk THEN "server" ELSE Fatalln("server")
               /\ fatalAt' = IF statOk THEN fatalAt ELSE "output"
    /\ UNCHANGED <<hostname, debug, cert, pkey, discard, pid, tlsmin, verbose,
                   srv, fs, open, connvars, histvars>>

\* Installing the persisting handler whatever the disposition.
ChooseOutputAlways(d) == "output"

\* The message handler main installs for the configured disposition.
ChooseHandler(d) == IF d THEN "discard" ELSE "output"

\* Lines 70-84: the handler captures output and verbose as they are now.
BuildServer ==
    /\ mainpc = "server"
    /\ srv' = [handler |-> ChooseHandler(discard), output |-> output,
               verbose |-> verbose, tls |-> FALSE, minVersion |-> "unset"]
    /\ mainpc' = "tls"
    /\ UNCHANGED <<cfgvars, verbose, fatalAt, fs, open, connvars, histvars>>

\* Requesting TLS when either path is given.
WantTLSEither(c, k) == c # "" \/ k # ""

\* Line 86: TLS is requested when both paths are given.
WantTLS(c, k) == c # "" /\ k # ""

\* The lowest flag set decides the floor.
MinVersionLowestWins(t) ==
    IF t.v11 THEN "1.1"
    ELSE IF t.v12 THEN "1.2"
    ELSE IF t.v13 THEN "1.3"
    ELSE "unset"

\* The floor on the protocol version the flags ask for: 1.3 is looked at
\* first, then 1.2, then 1.1.
MinVersion(t) ==
    IF t.v13 THEN "1.3"
    ELSE IF t.v12 THEN "1.2"
    ELSE IF t.v11 THEN "1.1"
    ELSE "unset"

\* Lines 86-92: srv.ConfigureTLS loads the pair and may fail; the floor is
\* set on the configuration that was loaded.
ConfigureTLS ==
    /\ mainpc = "tls"
    /\ IF WantTLS(cert, pkey)
       THEN \E loaded \in BOOLEAN :
               IF loaded
               THEN /\ srv' = [srv EXCEPT !.tls = TRUE,
                                           !.minVersion = MinVersion(tlsmin)]
                    /\ mainpc' = "listen"
                    /\ fatalAt' = fatalAt
               ELSE /\ srv' = srv
                    /\ mainpc' = Fatalln("listen")
                    /\ fatalAt' = "tls"
       ELSE /\ srv' = srv
            /\ mainpc' = "listen"
            /\ fatalAt' = fatalAt
    /\ UNCHANGED <<cfgvars, verbose, fs, open, connvars, histvars>>

\* Lines 94-98: srv.ListenAndServe serves, or returns an error at once.
ListenAndServe ==
    /\ mainpc = "listen"
    /\ \E bound \in BOOLEAN :
          /\ mainpc' = IF bound THEN "serving" ELSE Fatalln("exit")
          /\ fatalAt' = IF bound THEN fatalAt ELSE "listen"
    /\ UNCHANGED <<cfgvars, verbose, srv, fs, open, connvars, histvars>>

\* ------------------------------------------------------------ outputHandler
\* The engine runs each connection in its own goroutine; the goroutines are
\* interchangeable, so a new one is given the lowest free number.
LowestFree(p) == \A q \in 1..(p - 1) : pc[q] # "idle"

\* The engine goes on with the dialogue when a callback has accepted.
Accepted(r) == r # Nil /\ r[2]

\* Refusing an empty password.
AuthResultNeedsPassword(origin, mechanism, username, password, shared) ==
    IF password = "" THEN <<"auth", FALSE, "denied">>
    ELSE <<"auth", TRUE, "nil">>

\* authHandler, lines 102-105: what it returns.
AuthResult(origin, mechanism, username, password, shared) ==
    <<"auth", TRUE, "nil">>

\* The engine calls authHandler for an AUTH command, before the envelope.
AuthHandler(p) ==
    /\ mainpc = "serving"
    /\ pc[p] \in {"idle", "auth"}
    /\ pc[p] = "idle" => LowestFree(p)
    /\ delivered < MaxMsgs
    /\ \E o \in Origins, m \in Mechanisms, u \in Secrets, w \in Secrets,
          sh \in Secrets :
          ret' = [ret EXCEPT ![p] = AuthResult(o, m, u, w, sh)]
    /\ logs' = [logs EXCEPT ![p] = {"auth"}]
    /\ pc' = [pc EXCEPT ![p] = "auth"]
    /\ UNCHANGED <<cfgvars, mainvars, fs, open, data, prefix, i, f, err, werr,
                   deferred, histvars>>

\* Refusing an empty recipient.
RcptResultNeedsRecipient(origin, from, to) == <<"rcpt", to # "">>

\* rcptHandler, lines 141-144: what it returns.
RcptResult(origin, from, to) == <<"rcpt", TRUE>>

\* The engine calls rcptHandler for every RCPT command of a transaction.
RcptHandler(p) ==
    /\ mainpc = "serving"
    /\ pc[p] \in {"idle", "auth", "rcpt"}
    /\ pc[p] = "idle" => LowestFree(p)
    /\ pc[p] = "auth" => Accepted(ret[p])
    /\ delivered < MaxMsgs
    /\ \E o \in Origins, from \in Addrs, to \in Addrs :
          ret' = [ret EXCEPT ![p] = RcptResult(o, from, to)]
    /\ logs' = [logs EXCEPT ![p] = {"rcpt"}]
    /\ pc' = [pc EXCEPT ![p] = "rcpt"]
    /\ UNCHANGED <<cfgvars, mainvars, fs, open, data, prefix, i, f, err, werr,
                   deferred, histvars>>

\* The engine calls the handler with a message; lines 109-122 up to the
\* call of randFile.
OutputHandler(p) ==
    /\ mainpc = "serving"
    /\ srv.handler = "output"
    /\ pc[p] = "rcpt"
    /\ Accepted(ret[p])
    /\ delivered < MaxMsgs
    /\ \E b \in Bodies, now \in Times : \E m \in ReadMessage(b) :
          /\ data' = [data EXCEPT ![p] = b]
          /\ delivered' = delivered + 1
          /\ sawFail' = [sawFail EXCEPT ![p] = failed]
          /\ IF srv.verbose /\ ~m.ok
             THEN /\ logs' = [logs EXCEPT ![p] = {"parse error"}]
                  /\ failed' = TRUE
                  /\ mainpc' = Println(mainpc)
                  /\ pc' = [pc EXCEPT ![p] = "ret"]
                  /\ prefix' = [prefix EXCEPT ![p] = 0]
             ELSE /\ logs' = [logs EXCEPT ![p] =
                                 IF srv.verbose THEN {"received " \o m.subject}
                                 ELSE {}]
                  /\ failed' = failed
                  /\ mainpc' = mainpc
                  /\ pc' = [pc EXCEPT ![p] = "loop"]
                  /\ prefix' = [prefix EXCEPT ![p] = now]
    /\ i' = [i EXCEPT ![p] = 0]
    /\ f' = [f EXCEPT ![p] = Nil]
    /\ err' = [err EXCEPT ![p] = "nil"]
    /\ werr' = [werr EXCEPT ![p] = "nil"]
    /\ deferred' = [deferred EXCEPT ![p] = FALSE]
    /\ trace' = [trace EXCEPT ![p] = <<>>]
    /\ drawn' = [drawn EXCEPT ![p] = <<>>]
    /\ made' = [made EXCEPT ![p] = {}]
    /\ pre' = [pre EXCEPT ![p] = Nil]
    /\ ret' = [ret EXCEPT ![p] = Nil]
    /\ UNCHANGED <<cfgvars, verbose, fatalAt, srv, fs, open, handed, persisted>>

\* randFile, lines 159-171: one iteration of the loop.
Attempt(p) ==
    /\ mainpc = "serving"
    /\ pc[p] = "loop"
    /\ LoopCond(i[p])
    /\ \E t \in Times :
          LET name == FileName(srv.output, prefix[p], RandOf(t, pid), Extension)
          IN  \E o \in OpenFile(name, fs) :
                 /\ fs' = o.fs
                 /\ f' = [f EXCEPT ![p] = o.f]
                 /\ err' = [err EXCEPT ![p] = o.err]
                 /\ trace' = [trace EXCEPT ![p] = Append(@, o.err)]
                 /\ drawn' = [drawn EXCEPT ![p] =
                                 Append(@, IF o.err = "io" THEN 0 ELSE t)]
                 /\ IF o.err = "nil"
                    THEN /\ open' = open \cup {<<p, o.f>>}
                         /\ made' = [made EXCEPT ![p] = @ \cup {o.f}]
                         /\ pre' = [pre EXCEPT ![p] =
                                       [existed |-> o.existed,
                                        size |-> Len(o.fs[o.f])]]
                    ELSE UNCHANGED <<open, made, pre>>
                 /\ IF Breaks(o.err)
                    THEN /\ i' = i
                         /\ pc' = [pc EXCEPT ![p] = "rfret"]
                    ELSE /\ i' = [i EXCEPT ![p] = @ + 1]
                         /\ pc' = [pc EXCEPT ![p] =
                                      IF LoopCond(i[p] + 1) THEN "loop"
                                      ELSE "rfret"]
    /\ UNCHANGED <<cfgvars, mainvars, data, prefix, werr, deferred, logs, ret,
                   delivered, handed, persisted, failed, sawFail>>

\* randFile's return, line 173, and the caller's lines 122-128.  The locals
\* of randFile end with the call.
RandFileReturn(p) ==
    /\ pc[p] = "rfret"
    /\ IF err[p] # "nil"
       THEN /\ logs' = [logs EXCEPT ![p] = @ \cup {"alloc error"}]
            /\ failed' = TRUE
            /\ mainpc' = Println(mainpc)
            /\ pc' = [pc EXCEPT ![p] = "ret"]
            /\ UNCHANGED <<deferred, handed>>
       ELSE /\ deferred' = [deferred EXCEPT ![p] = TRUE]
            /\ handed' = handed (+) SetToBag({f[p]})
            /\ pc' = [pc EXCEPT ![p] = "write"]
            /\ UNCHANGED <<logs, failed, mainpc>>
    /\ i' = [i EXCEPT ![p] = 0]
    /\ trace' = [trace EXCEPT ![p] = <<>>]
    /\ drawn' = [drawn EXCEPT ![p] = <<>>]
    /\ made' = [made EXCEPT ![p] = {}]
    /\ pre' = [pre EXCEPT ![p] = Nil]
    /\ UNCHANGED <<cfgvars, verbose, fatalAt, srv, fs, open, data, prefix, f, ret,
                   err, werr, delivered, persisted, sawFail>>

\* Lines 130-137: copy the message into the file and log.
Write(p) ==
    /\ pc[p] = "write"
    /\ \E c \in Copy(Payload(data[p])) :
          /\ fs' = [fs EXCEPT ![f[p]] =
                       WriteAt0(@, SubSeq(Payload(data[p]), 1, c.n))]
          /\ werr' = [werr EXCEPT ![p] = c.err]
          /\ logs' = [logs EXCEPT ![p] =
                         @ \cup (IF c.err # "nil" THEN {"write error"} ELSE {})
                           \cup (IF srv.verbose THEN {"wrote"} ELSE {})]
          /\ failed' = (failed \/ c.err # "nil")
          /\ mainpc' = IF c.err # "nil" THEN Println(mainpc) ELSE mainpc
    /\ pc' = [pc EXCEPT ![p] = "ret"]
    /\ UNCHANGED <<cfgvars, verbose, fatalAt, srv, open, data, prefix, i, f, ret,
                   err, deferred, delivered, trace, drawn, made, pre, handed,
                   persisted, sawFail>>

\* Closing only after a write that succeeded.
AfterCloseOnSuccess(p, h, d) ==
    IF d /\ werr[p] = "nil" THEN h \ {<<p, f[p]>>} ELSE h

\* The handles the deferred call of line 128 leaves open.
AfterClose(p, h, d) == IF d THEN h \ {<<p, f[p]>>} ELSE h

\* The handler returns to the engine: the deferred Close runs and the
\* invocation's locals are gone.
Return(p) ==
    /\ pc[p] = "ret"
    /\ open' = AfterClose(p, open, deferred[p])
    /\ persisted' = IF f[p] # Nil /\ werr[p] = "nil"
                    THEN persisted \cup {<<f[p], data[p]>>}
                    ELSE persisted
    /\ pc' = [pc EXCEPT ![p] = "idle"]
    /\ data' = [data EXCEPT ![p] = <<>>]
    /\ prefix' = [prefix EXCEPT ![p] = 0]
    /\ i' = [i EXCEPT ![p] = 0]
    /\ f' = [f EXCEPT ![p] = Nil]
    /\ err' = [err EXCEPT ![p] = "nil"]
    /\ werr' = [werr EXCEPT ![p] = "nil"]
    /\ deferred' = [deferred EXCEPT ![p] = FALSE]
    /\ logs' = [logs EXCEPT ![p] = {}]
    /\ trace' = [trace EXCEPT ![p] = <<>>]
    /\ drawn' = [drawn EXCEPT ![p] = <<>>]
    /\ made' = [made EXCEPT ![p] = {}]
    /\ pre' = [pre EXCEPT ![p] = Nil]
    /\ sawFail' = [sawFail EXCEPT ![p] = FALSE]
    /\ UNCHANGED <<cfgvars, mainvars, fs, ret, delivered, handed, failed>>

\* ------------------------------------------------------------ discard
\* The discard handler: extract and log the subject when verbose, persist
\* nothing.
DiscardHandler(p) ==
    /\ mainpc = "serving"
    /\ srv.handler = "discard"
    /\ pc[p] = "rcpt"
    /\ Accepted(ret[p])
    /\ delivered < MaxMsgs
    /\ \E b \in Bodies : \E m \in ReadMessage(b) :
          /\ data' = [data EXCEPT ![p] = b]
          /\ logs' = [logs EXCEPT ![p] =
                         IF ~srv.verbose THEN {}
                         ELSE IF m.ok THEN {"received " \o m.subject}
                         ELSE {"parse error"}]
          /\ failed' = (failed \/ (srv.verbose /\ ~m.ok))
    /\ delivered' = delivered + 1
    /\ sawFail' = [sawFail EXCEPT ![p] = failed]
    /\ pc' = [pc EXCEPT ![p] = "ret"]
    /\ prefix' = [prefix EXCEPT ![p] = 0]
    /\ i' = [i EXCEPT ![p] = 0]
    /\ f' = [f EXCEPT ![p] = Nil]
    /\ err' = [err EXCEPT ![p] = "nil"]
    /\ werr' = [werr EXCEPT ![p] = "nil"]
    /\ deferred' = [deferred EXCEPT ![p] = FALSE]
    /\ trace' = [trace EXCEPT ![p] = <<>>]
    /\ drawn' = [drawn EXCEPT ![p] = <<>>]
    /\ made' = [made EXCEPT ![p] = {}]
    /\ pre' = [pre EXCEPT ![p] = Nil]
    /\ ret' = [ret EXCEPT ![p] = Nil]
    /\ UNCHANGED <<cfgvars, mainvars, fs, open, handed, persisted>>

Next ==
    \/ CheckHostname
    \/ ApplyDebug
    \/ ResolveOutput
    \/ BuildServer
    \/ ConfigureTLS
    \/ ListenAndServe
    \/ \E p \in Conns : AuthHandler(p)
    \/ \E p \in Conns : RcptHandler(p)
    \/ \E p \in Conns : OutputHandler(p)
    \/ \E p \in Conns : Attempt(p)
    \/ \E p \in Conns : RandFileReturn(p)
    \/ \E p \in Conns : Write(p)
    \/ \E p \in Conns : Return(p)
    \/ \E p \in Conns : DiscardHandler(p)

NoFloor == [v11 |-> FALSE, v12 |-> FALSE, v13 |-> FALSE]

\* A server started as "smtpdump -output out", with -verbose or not, and
\* persisting or discarding.
InitServe ==
    /\ Init
    /\ hostname = "mx"
    /\ ~debug
    /\ output = "out"
    /\ cert = ""
    /\ pkey = ""
    /\ tlsmin = NoFloor

Spec == InitServe /\ [][Next]_vars

\* A start with -debug and any other flags but the minimum-version ones.
InitMain == Init /\ debug /\ tlsmin = NoFloor

SpecMain == InitMain /\ [][Next]_vars

\* A verbose server started with a certificate and a key, and any of the
\* minimum-version flags.
InitTLS ==
    /\ Init
    /\ hostname = "mx"
    /\ ~debug
    /\ verbose
    /\ output = "out"
    /\ cert # ""
    /\ pkey # ""

SpecTLS == InitTLS /\ [][Next]_vars


\* ------------------------------------------------------------ properties
AllExist(t) == \A k \in 1..Len(t) : t[k] = "exist"

\* C1: concurrent randFile calls are never handed the same path: every
\* path is returned by at most one successful call, no two running
\* invocations hold the same path, and a call whose draw names a file
\* another call created gets already-exists and no handle.
C1_DistinctPaths ==
    /\ \A n \in BagToSet(handed) : CopiesIn(n, handed) = 1
    /\ \A p, q \in Conns :
          (p # q /\ f[p] # Nil /\ f[q] # Nil) => f[p] # f[q]
    /\ \A p \in Conns : err[p] = "exist" => f[p] = Nil

\* Two invocations with the same prefix run at once; one holds its file, the
\* other drew that file's name, got already-exists, and has now created a
\* different file.
C1_Raced ==
    \E p, q \in Conns :
        /\ p # q
        /\ pc[p] \in {"write", "ret"}
        /\ f[p] # Nil
        /\ pc[q] = "rfret"
        /\ err[q] = "nil"
        /\ prefix[p] = prefix[q]
        /\ f[q] # f[p]
        /\ DOMAIN fs = {f[p], f[q]}
        /\ \E k \in 1..Len(trace[q]) : trace[q][k] = "exist"

\* C2: when allocation and write succeed, the file of a message holds
\* exactly the message body, in verbose mode or not, and keeps holding it
\* after the handler has returned.
C2_FileIsBody ==
    /\ \A p \in Conns :
          (pc[p] = "ret" /\ f[p] # Nil /\ werr[p] = "nil")
             => (f[p] \in DOMAIN fs /\ fs[f[p]] = data[p])
    /\ \A e \in persisted : e[1] \in DOMAIN fs /\ fs[e[1]] = e[2]

\* A verbose handler has written a message made of an empty header section
\* and one more line, after an earlier message was persisted.
C2_Written ==
    \E p \in Conns :
        /\ srv.verbose
        /\ pc[p] = "ret"
        /\ f[p] # Nil
        /\ werr[p] = "nil"
        /\ Len(data[p]) = MaxBodyLen
        /\ data[p][1] = "n"
        /\ persisted # {}

\* C3: a message whose subject extraction failed is still persisted to a
\* file (stated for the messages that are not empty).
C3_PersistedAfterParseError ==
    \A p \in Conns :
        (pc[p] = "ret" /\ "parse error" \in logs[p] /\ data[p] # <<>>)
           => (f[p] # Nil /\ f[p] \in DOMAIN fs)

\* C4: an attempt that fails with an error other than already-exists is
\* the last attempt of its call, and the call returns that error.
C4_AbortOnOtherError ==
    \A p \in Conns :
        \A k \in 1..Len(trace[p]) :
            trace[p][k] = "io"
               => /\ k = Len(trace[p])
                  /\ pc[p] = "rfret" => err[p] = "io"

\* C5: a randFile call makes at most MaxAttempts creation attempts, and
\* when all of them fail with already-exists it returns an error, no
\* handle, and has created no file.
C5_BoundedRetry ==
    \A p \in Conns :
        /\ Len(trace[p]) <= MaxAttempts
        /\ i[p] <= MaxAttempts
        /\ pc[p] = "loop" => Len(trace[p]) < MaxAttempts
        /\ (pc[p] = "rfret" /\ Len(trace[p]) = MaxAttempts
              /\ AllExist(trace[p]))
              => (err[p] = "exist" /\ f[p] = Nil /\ made[p] = {})

\* A call has used up its attempts, all of them on existing names.
C5_Exhausted ==
    \E p \in Conns :
        /\ pc[p] = "rfret"
        /\ Len(trace[p]) = MaxAttempts
        /\ AllExist(trace[p])

\* C6: the path a successful randFile call returns did not exist before
\* the creating attempt, exists after it and is empty; a file that already
\* exists is never opened or emptied: no file is open twice, and no file of
\* a finished invocation is open or changed.
C6_ExclusiveCreate ==
    /\ \A p \in Conns :
          (pc[p] = "rfret" /\ err[p] = "nil")
             => /\ ~pre[p].existed
                /\ pre[p].size = 0
                /\ f[p] \in DOMAIN fs
                /\ fs[f[p]] = <<>>
    /\ \A h, g \in open : h[2] = g[2] => h = g
    /\ \A h \in open : \A e \in persisted : h[2] # e[1] /\ fs[e[1]] = e[2]

\* A call returns a new file after one of its draws named an existing one,
\* while the directory holds a non-empty file of an earlier message.
C6_CreatedBesideExisting ==
    \E p \in Conns :
        /\ pc[p] = "rfret"
        /\ err[p] = "nil"
        /\ \E k \in 1..Len(trace[p]) : trace[p][k] = "exist"
        /\ \E e \in persisted : e[2] # <<>>

\* C7: a failure in handling a message is only logged: the process keeps
\* serving, and an invocation that begins after such a failure persists its
\* message when its allocation and write succeed.
C7_FailureOnlyLogged ==
    /\ failed => mainpc = "serving"
    /\ \A p \in Conns :
          /\ pc[p] # "idle" => mainpc = "serving"
          /\ (sawFail[p] /\ pc[p] = "ret" /\ f[p] # Nil /\ werr[p] = "nil")
                => (f[p] \in DOMAIN fs /\ fs[f[p]] = data[p])

\* After an earlier invocation failed, a later one has written a message
\* with a header section to its file.
C7_PersistedAfterFailure ==
    \E p \in Conns :
        /\ sawFail[p]
        /\ pc[p] = "ret"
        /\ f[p] # Nil
        /\ werr[p] = "nil"
        /\ Len(data[p]) = MaxBodyLen
        /\ data[p][Len(data[p])] = "n"
        /\ fs[f[p]] = data[p]

\* C8: every open handle belongs to a running invocation that holds it, so
\* an invocation that has returned has left none open.
C8_HandlesClosed ==
    \A h \in open :
        /\ pc[h[1]] \in {"rfret", "write", "ret"}
        /\ f[h[1]] = h[2]

\* All messages are handled, one of them lost its write, and no handle is
\* open.
C8_AllReturned ==
    /\ delivered = MaxMsgs
    /\ \A p \in Conns : pc[p] = "idle"
    /\ \E n \in DOMAIN fs : \A e \in persisted : e[1] # n
    /\ open = {}

\* C9: a server configured to discard creates no file, whatever it is
\* sent.
C9_DiscardCreatesNothing ==
    discard => (DOMAIN fs = {} /\ open = {} /\ handed = EmptyBag)

\* A discarding server has handled all its messages, the last one not
\* empty.
C9_Discarded ==
    /\ discard
    /\ delivered = MaxMsgs
    /\ \E p \in Conns : pc[p] = "ret" /\ data[p] # <<>>

\* C10: TLS is configured exactly when both the certificate and the key
\* path are given; with either absent the server serves without TLS; when
\* loading the pair fails the process ends without having served.
C10_TLSIffBoth ==
    /\ srv.tls => (cert # "" /\ pkey # "")
    /\ mainpc \in {"listen", "serving"} => (srv.tls <=> (cert # "" /\ pkey # ""))
    /\ fatalAt = "tls" =>
          (mainpc = "fatal" /\ cert # "" /\ pkey # "" /\ delivered = 0)

\* A server given a certificate but no key serves a message without TLS.
C10_PlaintextWithoutKey ==
    /\ mainpc = "serving"
    /\ cert # ""
    /\ pkey = ""
    /\ ~srv.tls
    /\ delivered > 0


\* C11: the floor of the TLS configuration is the highest version whose
\* flag is set, for every combination of the three flags; with 1.2 and 1.3
\* both asked for it is 1.3, and with none it is left unset.
C11_HighestFloorWins ==
    srv.tls =>
       /\ tlsmin.v13 => srv.minVersion = "1.3"
       /\ (~tlsmin.v13 /\ tlsmin.v12) => srv.minVersion = "1.2"
       /\ (~tlsmin.v13 /\ ~tlsmin.v12 /\ tlsmin.v11) => srv.minVersion = "1.1"
       /\ (~tlsmin.v13 /\ ~tlsmin.v12 /\ ~tlsmin.v11)
             => srv.minVersion = "unset"

\* A server asked for both the 1.2 and the 1.3 floor serves with TLS
\* configured.
C11_BothFloorsAsked ==
    /\ mainpc = "serving"
    /\ srv.tls
    /\ tlsmin.v12
    /\ tlsmin.v13
    /\ delivered > 0


\* C12: authHandler returns (true, nil) whatever the origin, mechanism,
\* username, password and shared secret, and whatever was called before
\* on the connection.
C12_AuthAccepts ==
    \A p \in Conns : pc[p] = "auth" => ret[p] = <<"auth", TRUE, "nil">>

\* authHandler has returned on a connection after a message was handled
\* and an invocation had failed.
C12_AuthAfterFailure ==
    \E p \in Conns :
        /\ pc[p] = "auth"
        /\ ret[p] # Nil
        /\ delivered > 0
        /\ failed

\* C13: rcptHandler returns true whatever the origin, sender and
\* recipient, and whatever was called before on the connection.
C13_RcptAccepts ==
    \A p \in Conns : pc[p] = "rcpt" => ret[p] = <<"rcpt", TRUE>>

\* rcptHandler has returned on a connection while another connection's
\* message is being written.
C13_RcptBesideWrite ==
    \E p, q \in Conns :
        /\ pc[p] = "rcpt"
        /\ ret[p] # Nil
        /\ pc[q] = "write"


\* C14: after an already-exists failure randFile tries again with a draw
\* of its own (it stops at such a failure only when the attempts are used
\* up), a creation that follows an already-exists came from a different
\* draw, and the call then returns the file of that draw with no error.
C14_RetryWithNewDraw ==
    \A p \in Conns :
        LET n == Len(trace[p]) IN
        /\ Len(drawn[p]) = n
        /\ (pc[p] = "rfret" /\ n > 0 /\ trace[p][n] = "exist")
              => n = MaxAttempts
        /\ \A k \in 1..(n - 1) :
              (trace[p][k] = "exist" /\ trace[p][k + 1] = "nil")
                 => drawn[p][k + 1] # drawn[p][k]
        /\ (pc[p] = "rfret" /\ n > 0 /\ trace[p][n] = "nil")
              => /\ err[p] = "nil"
                 /\ f[p] = FileName(srv.output, prefix[p],
                                    RandOf(drawn[p][n], pid), Extension)
                 /\ f[p] \in DOMAIN fs

\* A call drew the name of an existing file, drew it once more, and
\* returns a file from a third, different draw.
C14_RedrawnOnce ==
    \E p \in Conns :
        /\ pc[p] = "rfret"
        /\ trace[p] = <<"exist", "exist", "nil">>
        /\ drawn[p][1] = drawn[p][2]
        /\ drawn[p][3] # drawn[p][1]
        /\ err[p] = "nil"
        /\ f[p] \in DOMAIN fs


\* C15: a creation attempt of randFile leaves every existing file and its
\* content as they were, adds exactly the new empty file when it succeeds
\* and nothing when it fails; a call that returns a file has created that
\* file and no other, and a call that returns an error has created none.
C15_OneFileOrNone ==
    [][\A p \in Conns :
          /\ Len(trace'[p]) = Len(trace[p]) + 1
                => /\ \A n \in DOMAIN fs : n \in DOMAIN fs' /\ fs'[n] = fs[n]
                   /\ IF trace'[p][Len(trace'[p])] = "nil"
                      THEN /\ f'[p] \notin DOMAIN fs
                           /\ DOMAIN fs' = DOMAIN fs \cup {f'[p]}
                           /\ fs'[f'[p]] = <<>>
                      ELSE DOMAIN fs' = DOMAIN fs
          /\ pc'[p] = "rfret"
                => made'[p] = IF err'[p] = "nil" THEN {f'[p]} ELSE {}
      ]_vars

\* A call returns an error after attempts that failed both ways, while the
\* directory holds the non-empty file of an earlier message.
C15_FailedBesideExisting ==
    \E p \in Conns :
        /\ pc[p] = "rfret"
        /\ err[p] # "nil"
        /\ made[p] = {}
        /\ \E k \in 1..Len(trace[p]) : trace[p][k] = "exist"
        /\ \E k \in 1..Len(trace[p]) : trace[p][k] = "io"
        /\ \E e \in persisted : e[2] # <<>> /\ fs[e[1]] = e[2]


\* C16: with logging enabled the handler logs "Wrote <path>" only after a
\* write that succeeded; after a failed write the error is logged and no
\* "Wrote" line follows for that message.
C16_WroteOnlyOnSuccess ==
    \A p \in Conns :
        /\ (pc[p] = "ret" /\ "wrote" \in logs[p]) => werr[p] = "nil"
        /\ (pc[p] = "ret" /\ f[p] # Nil /\ werr[p] # "nil")
              => ("write error" \in logs[p] /\ "wrote" \notin logs[p])


\* C17: the server listens, and a callback runs, only after the hostname was
\* found non-empty, the output directory was resolved and found, and TLS, when
\* asked for, was configured; a check that fails ends the process, which
\* stays ended and has never listened.
C17_ListenAfterChecks ==
    /\ [](/\ mainpc = "serving"
             => /\ hostname # ""
                /\ output # ""
                /\ srv.output = output
                /\ fatalAt = ""
                /\ WantTLS(cert, pkey) => srv.tls
          /\ ((\E p \in Conns : pc[p] # "idle") \/ delivered > 0)
                => mainpc = "serving"
          /\ fatalAt # ""
                => /\ mainpc = "fatal"
                   /\ delivered = 0
                   /\ DOMAIN fs = {}
                   /\ \A p \in Conns : pc[p] = "idle" /\ logs[p] = {})
    /\ [][fatalAt # "" => (mainpc' = "fatal" /\ fatalAt' = fatalAt)]_vars

\* The server listens with TLS in the working directory it resolved, and a
\* message has been given to its handler.
C17_ServingAfterAllChecks ==
    /\ mainpc = "serving"
    /\ output = "cwd"
    /\ srv.tls
    /\ delivered > 0
    /\ \E p \in Conns : pc[p] \in {"rfret", "write", "ret"}


\* C18: randFile returns either a handle it holds open on an existing file
\* together with a nil error, or no handle together with an error and nothing
\* left open; the handler writes to and closes only a handle it was given.
C18_HandleXorError ==
    \A p \in Conns :
        /\ pc[p] = "rfret"
              => \/ /\ f[p] # Nil
                    /\ err[p] = "nil"
                    /\ <<p, f[p]>> \in open
                    /\ f[p] \in DOMAIN fs
                 \/ /\ f[p] = Nil
                    /\ err[p] # "nil"
                    /\ \A h \in open : h[1] # p
        /\ (pc[p] = "write" \/ deferred[p])
              => /\ f[p] # Nil
                 /\ err[p] = "nil"
        /\ pc[p] = "write" => <<p, f[p]>> \in open

\* A call returns a handle after one attempt failed on another error and one
\* on an existing name.
C18_HandleAfterBothFailures ==
    \E p \in Conns :
        /\ pc[p] = "rfret"
        /\ trace[p] = <<"io", "exist", "nil">>
        /\ f[p] # Nil
        /\ err[p] = "nil"

====
